---- MODULE Spec2Model ----
(***************************************************************************)
(* Model of the speech-transcription relays of SimpleAIChat:               *)
(*   sample4/server.py  text-framed (JSON + base64), remote engine         *)
(*   sample5/server.py  binary-framed (PCM -> WAV header), remote engine   *)
(*   sample6/server.py  binary-framed, local Whisper model, temporary file *)
(* One behaviour is one server process of one variant with NSessions       *)
(* connections, each served by its own handle_connection coroutine on one  *)
(* asyncio event loop.  An action is the code that runs between two        *)
(* suspension points (await) of a coroutine, or a step of a peer or of the *)
(* transcription engine.                                                   *)
(***************************************************************************)
EXTENDS Integers, Sequences, FiniteSets, TLC

(* ------------------------------ bounds --------------------------------- *)
NSessions == 2
MaxFrames == 2
MaxFaults == 1

Sessions == 1..NSessions
Variants == {"sample4", "sample5", "sample6"}

(* ------------------- byte counts wider than 31 bits -------------------- *)
\* A byte count is kept as two limbs, value = hi * Base + lo, because a
\* WebSocket frame accepted with max_size=None may be 2^32 bytes or longer.
Base == 65536

Big(h, l) == [hi |-> h, lo |-> l]

ToBig(n) == Big(n \div Base, n % Base)

\* Python int addition of a small int to a byte count (36 + pcm_data_length).
BigAdd(n, k) == Big(n.hi + ((n.lo + k) \div Base), (n.lo + k) % Base)

\* no range check: the value is packed as it comes
FitsU32Unchecked(v) == TRUE

\* v <= 0xFFFFFFFF, the range struct.pack("<I", v) accepts.
FitsU32(v) == v.hi < Base

(* --------------------------- byte strings ------------------------------ *)
\* A bytes object is `body` followed by `pad` zero bytes, so that a frame of
\* 2^32 bytes can be written down.
Bytes(b, p) == [body |-> b, pad |-> p]

EmptyBytes == Bytes(<<>>, ToBig(0))

\* len(b)
BytesLen(b) == BigAdd(b.pad, Len(b.body))

\* the header alone, the samples left out
ConcatHeaderOnly(h, b) == Bytes(h, ToBig(0))

\* header + message, header a plain byte sequence
Concat(h, b) == Bytes(h \o b.body, b.pad)

(* ----------------------------- struct.pack ----------------------------- *)
\* struct.pack("<H", n) for a small n
PackH(n) == <<n % 256, n \div 256>>

\* struct.pack("<I", v): four little-endian bytes of a byte count v that
\* fits; the caller tests FitsU32 first (struct.error otherwise).
PackI(v) == PackH(v.lo) \o PackH(v.hi)

AUDIO_SAMPLE_RATE == 48000

RIFF == <<82, 73, 70, 70>>
WAVE == <<87, 65, 86, 69>>
FMT == <<102, 109, 116, 32>>
DATA == <<100, 97, 116, 97>>

\* struct.pack("<IHHIIHH", 16, 1, 1, rate, rate * 2, 2, 16)
FmtFields ==
    PackI(ToBig(16)) \o PackH(1) \o PackH(1) \o PackI(ToBig(AUDIO_SAMPLE_RATE))
        \o PackI(ToBig(AUDIO_SAMPLE_RATE * 2)) \o PackH(2) \o PackH(16)

\* ChunkSize taken for the size of the whole file
ChunkSizeWhole(len) == BigAdd(len, 44)

\* ChunkSize field of the RIFF chunk
ChunkSize(len) == BigAdd(len, 36)

\* create_wav_header(pcm_data_length): the header, or struct.error when a
\* size field does not fit an unsigned 32-bit integer.
create_wav_header(len) ==
    IF FitsU32(ChunkSize(len)) /\ FitsU32(len)
    THEN [ok |-> TRUE,
          bytes |-> RIFF \o PackI(ChunkSize(len)) \o WAVE \o FMT \o FmtFields
                        \o DATA \o PackI(len)]
    ELSE [ok |-> FALSE,
          exc |-> [type |-> "error",
                   msg |-> "'I' format requires 0 <= number <= 4294967295"]]

(* ------------------------------- frames -------------------------------- *)
\* A WebSocket message is bytes (binary framing) or str (text framing).
BinFrame(b) == [binary |-> TRUE, data |-> b]

TextFrame(t) == [binary |-> FALSE, text |-> t]

\* Texts a peer may send, and what json.loads returns for each of them.
JsonFail == [ok |-> FALSE, exc |-> [type |-> "JSONDecodeError",
                    msg |-> "Expecting value: line 1 column 1 (char 0)"]]

JsonDict(d) == [ok |-> TRUE, isdict |-> TRUE, obj |-> d]

JsonOther == [ok |-> TRUE, isdict |-> FALSE]

JsonParse(t) ==
    CASE t = "{}" -> JsonDict(<<>>)
      [] t = "[]" -> JsonOther
      [] t = "{\"type\":\"ping\",\"data\":\"AAAAAA==\"}" ->
            JsonDict([type |-> "ping",
                      data |-> <<"A", "A", "A", "A", "A", "A", "=", "=">>])
      [] t = "{\"type\":\"audio_chunk\"}" -> JsonDict([type |-> "audio_chunk"])
      [] t = "{\"type\":\"audio_chunk\",\"data\":\"\"}" ->
            JsonDict([type |-> "audio_chunk", data |-> <<>>])
      [] t = "{\"type\":\"audio_chunk\",\"data\":\"AAAAAA==\"}" ->
            JsonDict([type |-> "audio_chunk",
                      data |-> <<"A", "A", "A", "A", "A", "A", "=", "=">>])
      [] t = "{\"type\":\"audio_chunk\",\"data\":\"/w=\"}" ->
            JsonDict([type |-> "audio_chunk", data |-> <<"/", "w", "=">>])
      [] OTHER -> JsonFail

\* bytes.decode of the byte strings a peer may send as a binary frame
Utf8Decode(b) ==
    CASE b = Bytes(<<123, 125>>, ToBig(0)) -> "{}"
      [] OTHER -> "\\x00"

\* json.loads(message): a str is parsed, bytes are decoded and then parsed.
JsonLoads(m) ==
    IF m.binary THEN JsonParse(Utf8Decode(m.data)) ELSE JsonParse(m.text)

(* ------------------------------- base64 -------------------------------- *)
B64Alphabet ==
    <<"A", "B", "C", "D", "E", "F", "G", "H", "I", "J", "K", "L", "M",
      "N", "O", "P", "Q", "R", "S", "T", "U", "V", "W", "X", "Y", "Z",
      "a", "b", "c", "d", "e", "f", "g", "h", "i", "j", "k", "l", "m",
      "n", "o", "p", "q", "r", "s", "t", "u", "v", "w", "x", "y", "z",
      "0", "1", "2", "3", "4", "5", "6", "7", "8", "9", "+", "/">>

IsB64Char(c) == \E i \in 1..64 : B64Alphabet[i] = c

B64Value(c) == (CHOOSE i \in 1..64 : B64Alphabet[i] = c) - 1

\* binascii.a2b_base64 in its default non-strict mode: characters outside
\* the alphabet are skipped, a complete pad sequence ends the input, and a
\* quad left unfinished at the end is an error.  quad is the position in the
\* current group of four, left the bits carried over, pads the run of '='.
RECURSIVE B64Scan(_, _, _, _, _, _)
B64Scan(q, i, quad, left, pads, out) ==
    IF i > Len(q)
    THEN IF quad = 0
         THEN [ok |-> TRUE, bytes |-> out]
         ELSE [ok |-> FALSE,
               exc |-> [type |-> "Error",
                        msg |-> IF quad = 1
                                THEN "Invalid base64-encoded string"
                                ELSE "Incorrect padding"]]
    ELSE IF q[i] = "="
         THEN IF quad >= 2 /\ quad + pads + 1 >= 4
              THEN [ok |-> TRUE, bytes |-> out]
              ELSE B64Scan(q, i + 1, quad, left,
                           IF quad >= 2 THEN pads + 1 ELSE pads, out)
         ELSE IF ~IsB64Char(q[i])
              THEN B64Scan(q, i + 1, quad, left, pads, out)
              ELSE LET v == B64Value(q[i]) IN
                   CASE quad = 0 -> B64Scan(q, i + 1, 1, v, 0, out)
                     [] quad = 1 ->
                          B64Scan(q, i + 1, 2, v % 16, 0,
                                  Append(out, left * 4 + (v \div 16)))
                     [] quad = 2 ->
                          B64Scan(q, i + 1, 3, v % 4, 0,
                                  Append(out, left * 16 + (v \div 4)))
                     [] OTHER ->
                          B64Scan(q, i + 1, 0, 0, 0,
                                  Append(out, left * 64 + v))

\* the missing padding is added before the payload is decoded
b64decodePadded(q) == B64Scan(q \o <<"=", "=">>, 1, 0, 0, 0, <<>>)

\* base64.b64decode(audio_data) for a str of ASCII characters
b64decode(q) == B64Scan(q, 1, 0, 0, 0, <<>>)

(* ------------------------- frames a peer sends ------------------------- *)
\* 2^32 - 37 bytes is the longest payload whose RIFF chunk size 36 + L still
\* fits 32 bits; 2^32 - 36 is the first that does not.
LongestLen == Big(Base - 1, Base - 37)

BinaryFrames ==
    << BinFrame(EmptyBytes),
       BinFrame(Bytes(<<123, 125>>, ToBig(0))),
       BinFrame(Bytes(<<>>, LongestLen)),
       BinFrame(Bytes(<<>>, BigAdd(LongestLen, 1))) >>

TextFrames ==
    << TextFrame("hello"),
       TextFrame("[]"),
       TextFrame("{\"type\":\"ping\",\"data\":\"AAAAAA==\"}"),
       TextFrame("{\"type\":\"audio_chunk\"}"),
       TextFrame("{\"type\":\"audio_chunk\",\"data\":\"\"}"),
       TextFrame("{\"type\":\"audio_chunk\",\"data\":\"AAAAAA==\"}"),
       TextFrame("{\"type\":\"audio_chunk\",\"data\":\"/w=\"}") >>

\* The frames the peers of a variant send, listed: the frames of the framing
\* the variant is written for, and a few of the other framing.
FrameList(v) ==
    IF v = "sample4"
    THEN TextFrames \o <<BinaryFrames[2]>>
    ELSE IF v = "sample5"
    THEN BinaryFrames \o <<TextFrames[1], TextFrames[3], TextFrames[5]>>
    ELSE <<BinaryFrames[1], BinaryFrames[3], BinaryFrames[4],
           TextFrames[1], TextFrames[3]>>

Frames(v) == {FrameList(v)[i] : i \in 1..Len(FrameList(v))}

\* The place of frame f in the list of variant v.
Rank(v, f) == CHOOSE i \in 1..Len(FrameList(v)) : FrameList(v)[i] = f

(* ------------------------------- state --------------------------------- *)
VARIABLES
    variant,   \* which server.py runs
    conn,      \* conn[s]: "up" or "down", the transport of session s
    inbox,     \* inbox[s]: frames received by the transport, not yet iterated
    pc,        \* pc[s]: where coroutine s is suspended
    resp,      \* resp[s]: <<r>> while coroutine s is inside websocket.send(r)
    tmp_path,  \* tmp_path[s]: {p} while tmp_path is live in coroutine s
    files,     \* temporary files on disk: records [path, data, owner]
    gateway,   \* gateway[s]: the engine calls made for session s, in order
    outbox,    \* outbox[s]: responses delivered to the peer of s, in order
    recvd,     \* recvd[s]: frames handed to coroutine s so far, in order
    loop,      \* sessions that hold the event loop in a blocking call
    faults     \* connections dropped and file operations failed so far

vars ==
    <<variant, conn, inbox, pc, resp, tmp_path, files, gateway, outbox,
      recvd, loop, faults>>

RECURSIVE FramesOf(_, _, _)
\* The frames of fs addressed to session s by `to`, in their order in fs.
FramesOf(fs, to, s) ==
    IF fs = <<>> THEN <<>>
    ELSE IF Head(to) = s
         THEN <<Head(fs)>> \o FramesOf(Tail(fs), Tail(to), s)
         ELSE FramesOf(Tail(fs), Tail(to), s)

\* The connections are accepted and one coroutine per connection waits in
\* `async for`.  inbox holds the frames each peer sends over the life of its
\* connection: the handler sees a frame only when `async for` hands it over,
\* so a frame that arrives later is to it a frame buffered by the transport.
\* All sessions run the same code, so they are numbered busiest first, and
\* among equally busy ones by their first frame.
Init ==
    /\ variant \in Variants
    /\ conn = [s \in Sessions |-> "up"]
    /\ \E n \in 0..MaxFrames :
         \E fs \in [1..n -> Frames(variant)], to \in [1..n -> Sessions] :
           /\ inbox = [s \in Sessions |-> FramesOf(fs, to, s)]
           /\ \A s \in Sessions \ {NSessions} :
                \/ Len(inbox[s]) > Len(inbox[s + 1])
                \/ /\ Len(inbox[s]) = Len(inbox[s + 1])
                   /\ inbox[s] # <<>> =>
                         Rank(variant, inbox[s][1])
                            <= Rank(variant, inbox[s + 1][1])
    /\ pc = [s \in Sessions |-> "Open"]
    /\ resp = [s \in Sessions |-> <<>>]
    /\ tmp_path = [s \in Sessions |-> {}]
    /\ files = {}
    /\ gateway = [s \in Sessions |-> <<>>]
    /\ outbox = [s \in Sessions |-> <<>>]
    /\ recvd = [s \in Sessions |-> <<>>]
    /\ loop = {}
    /\ faults = 0

(* ------------------------------ the peers ------------------------------ *)
\* The environment may drop a connection or fail a file operation while the
\* fault budget lasts.
MayFail == faults < MaxFaults

\* The peer of session s closes or resets the connection.
PeerClose(s) ==
    /\ conn[s] = "up"
    /\ MayFail
    /\ conn' = [conn EXCEPT ![s] = "down"]
    /\ faults' = faults + 1
    /\ UNCHANGED <<variant, inbox, pc, resp, tmp_path, files, gateway, outbox,
                   recvd, loop>>

(* ------------------------ pieces of the handler ------------------------ *)
\* The number of the frame coroutine s is processing, and the frame.
FrameNo(s) == Len(recvd[s])

Message(s) == recvd[s][Len(recvd[s])]

\* json.dumps({"text": ...}); `no` records the frame it answers.
TextResult(k, t) == [no |-> k, kind |-> "text", text |-> t]

\* json.dumps({"error": str(e)}), in sample6 with "type": type(e).__name__
ErrorResult(k, e) ==
    IF variant = "sample6"
    THEN [no |-> k, kind |-> "error", error |-> e.msg, type |-> e.type]
    ELSE [no |-> k, kind |-> "error", error |-> e.msg]

\* The transcript the engine returns for an input.
Transcript(input) == [of |-> input]

\* Coroutine s may run: no other coroutine blocks the event loop.
LoopFree(s) == loop \subseteq {s}

\* a frame handed over while the engine call of the previous one is pending
CanAcceptPipelined(s) == pc[s] \in {"Open", "Gateway"} /\ inbox[s] # <<>>

\* `async for message in websocket` hands over the next frame.
CanAccept(s) == pc[s] = "Open" /\ inbox[s] # <<>>

\* The frame is taken from the transport; it is frame FrameNo(s) + 1.
Take(s) ==
    /\ inbox' = [inbox EXCEPT ![s] = Tail(@)]
    /\ recvd' = [recvd EXCEPT ![s] = Append(@, Head(inbox[s]))]

\* except Exception: pass -- the exception is swallowed
RaiseSwallowed(s, k, e) ==
    /\ pc' = [pc EXCEPT ![s] = "Open"]
    /\ resp' = [resp EXCEPT ![s] = <<>>]

\* except Exception as e: await send(...error...) -- the coroutine is now
\* suspended in the send of the ErrorResult for frame k.
Raise(s, k, e) ==
    /\ pc' = [pc EXCEPT ![s] = "SendError"]
    /\ resp' = [resp EXCEPT ![s] = <<ErrorResult(k, e)>>]

\* The end of the loop body, or `continue`: the coroutine waits for a frame.
BackToOpen(s) ==
    /\ pc' = [pc EXCEPT ![s] = "Open"]
    /\ resp' = [resp EXCEPT ![s] = <<>>]

\* a message of no known type is reported as an error
IgnoreRejected(s, k) ==
    Raise(s, k, [type |-> "ValueError", msg |-> "Unknown message type"])

\* A parsed message the handler has no branch for: nothing is done with it
\* and the loop body ends.
Ignore(s, k) == BackToOpen(s)

\* The engine is called with `input` for frame k.
CallGateway(s, k, input) ==
    /\ gateway' = [gateway EXCEPT
                     ![s] = Append(@, [no |-> k, input |-> input,
                                       status |-> "pending"])]
    /\ pc' = [pc EXCEPT ![s] = "Gateway"]
    /\ UNCHANGED resp

\* The latest engine call of session s.
LastCall(s) == gateway[s][Len(gateway[s])]

\* The latest engine call of session s gets its outcome.
SettleCall(s, st) ==
    gateway' = [gateway EXCEPT ![s][Len(gateway[s])].status = st]

\* the response goes out on every connection of the server
DeliverToAll(s) ==
    outbox' = [t \in Sessions |-> Append(outbox[t], resp[s][1])]

\* websocket.send(...) hands the response to the peer.
Deliver(s) == outbox' = [outbox EXCEPT ![s] = Append(@, resp[s][1])]

ApiError == [type |-> "APIConnectionError", msg |-> "Connection error."]

InferenceError == [type |-> "RuntimeError", msg |-> "inference failed"]

ConnectionClosed ==
    [type |-> "ConnectionClosedError",
     msg |-> "no close frame received or sent"]

DiskError == [type |-> "OSError", msg |-> "[Errno 28] No space left on device"]

AttributeError ==
    [type |-> "AttributeError", msg |-> "object has no attribute 'get'"]

KeyError == [type |-> "KeyError", msg |-> "'data'"]

EmptyAudio == [type |-> "ValueError", msg |-> "Empty audio data received"]

\* the except handler leaves the loop after it has reported the error
ErrorSendBreak(s) ==
    /\ pc[s] = "SendError"
    /\ LoopFree(s)
    /\ pc' = [pc EXCEPT ![s] = "Closed"]
    /\ resp' = [resp EXCEPT ![s] = <<>>]
    /\ IF conn[s] = "up" THEN Deliver(s) ELSE UNCHANGED outbox
    /\ UNCHANGED <<variant, conn, inbox, tmp_path, files, gateway, recvd,
                   loop, faults>>

\* a send that fails on a closed connection is tried again
ErrorSendRetried(s) ==
    /\ pc[s] = "SendError"
    /\ LoopFree(s)
    /\ IF conn[s] = "up"
       THEN Deliver(s) /\ BackToOpen(s)
       ELSE UNCHANGED <<pc, resp, outbox>>
    /\ UNCHANGED <<variant, conn, inbox, tmp_path, files, gateway, recvd,
                   loop, faults>>

\* The except handler's own send: delivered, or the connection is gone and
\* ConnectionClosed leaves handle_connection.
ErrorSend(s) ==
    /\ pc[s] = "SendError"
    /\ LoopFree(s)
    /\ IF conn[s] = "up"
       THEN Deliver(s) /\ BackToOpen(s)
       ELSE /\ pc' = [pc EXCEPT ![s] = "Closed"]
            /\ resp' = [resp EXCEPT ![s] = <<>>]
            /\ UNCHANGED outbox
    /\ UNCHANGED <<variant, conn, inbox, tmp_path, files, gateway, recvd,
                   loop, faults>>

\* the engine call outside the try block: its exception ends the handler
RemoteReturnFatal(s) ==
    /\ pc[s] = "Gateway"
    /\ LoopFree(s)
    /\ \E ok \in BOOLEAN :
         IF ok
         THEN /\ SettleCall(s, "ok")
              /\ pc' = [pc EXCEPT ![s] = "SendText"]
              /\ resp' = [resp EXCEPT
                            ![s] = <<TextResult(FrameNo(s),
                                         Transcript(LastCall(s).input))>>]
         ELSE /\ SettleCall(s, "failed")
              /\ pc' = [pc EXCEPT ![s] = "Closed"]
              /\ UNCHANGED resp
    /\ UNCHANGED <<variant, conn, inbox, tmp_path, files, outbox, recvd,
                   loop, faults>>

\* The remote engine call returns a transcript or raises.
RemoteReturn(s) ==
    /\ pc[s] = "Gateway"
    /\ LoopFree(s)
    /\ \E ok \in BOOLEAN :
         IF ok
         THEN /\ SettleCall(s, "ok")
              /\ pc' = [pc EXCEPT ![s] = "SendText"]
              /\ resp' = [resp EXCEPT
                            ![s] = <<TextResult(FrameNo(s),
                                         Transcript(LastCall(s).input))>>]
         ELSE /\ SettleCall(s, "failed")
              /\ Raise(s, FrameNo(s), ApiError)
    /\ UNCHANGED <<variant, conn, inbox, tmp_path, files, outbox, recvd,
                   loop, faults>>

(* ------------------------------ sample4 -------------------------------- *)
\* the type of the message is not looked at
IsAudioChunkAny(d) == TRUE

\* data.get("type") == "audio_chunk"
IsAudioChunk(d) == "type" \in DOMAIN d /\ d.type = "audio_chunk"

\* the payload is handed on without the test for emptiness
NoAudioDataUnchecked(audio_data) == FALSE

\* `not audio_data`: the payload string is empty
NoAudioData(audio_data) == audio_data = <<>>

\* One iteration of the receive loop up to its first await.
Receive4(s) ==
    /\ variant = "sample4"
    /\ CanAccept(s)
    /\ LoopFree(s)
    /\ Take(s)
    /\ LET k == FrameNo(s) + 1
           j == JsonLoads(Head(inbox[s]))
       IN  IF ~j.ok THEN Raise(s, k, j.exc) /\ UNCHANGED gateway
           ELSE IF ~j.isdict
           THEN Raise(s, k, AttributeError) /\ UNCHANGED gateway
           ELSE IF ~IsAudioChunk(j.obj)
           THEN Ignore(s, k) /\ UNCHANGED gateway
           ELSE IF "data" \notin DOMAIN j.obj
           THEN Raise(s, k, KeyError) /\ UNCHANGED gateway
           ELSE IF NoAudioData(j.obj.data)
           THEN Raise(s, k, EmptyAudio) /\ UNCHANGED gateway
           ELSE LET d == b64decode(j.obj.data)
                IN  IF d.ok
                    THEN CallGateway(s, k, Bytes(d.bytes, ToBig(0)))
                    ELSE Raise(s, k, d.exc) /\ UNCHANGED gateway
    /\ UNCHANGED <<variant, conn, tmp_path, files, outbox, loop, faults>>

GatewayReturn4(s) == variant = "sample4" /\ RemoteReturn(s)

\* After the transcript was sent the if-block and the loop body end.
AfterTextSent4(s) == BackToOpen(s)

\* await websocket.send(json.dumps({"text": response.text})) completes.
SendText4(s) ==
    /\ variant = "sample4"
    /\ pc[s] = "SendText"
    /\ LoopFree(s)
    /\ IF conn[s] = "up"
       THEN Deliver(s) /\ AfterTextSent4(s)
       ELSE Raise(s, FrameNo(s), ConnectionClosed) /\ UNCHANGED outbox
    /\ UNCHANGED <<variant, conn, inbox, tmp_path, files, gateway, recvd,
                   loop, faults>>

SendError4(s) == variant = "sample4" /\ ErrorSend(s)

(* ------------------------------ sample5 -------------------------------- *)
\* One iteration of the receive loop up to its first await.
Receive5(s) ==
    /\ variant = "sample5"
    /\ CanAccept(s)
    /\ LoopFree(s)
    /\ Take(s)
    /\ LET k == FrameNo(s) + 1
           m == Head(inbox[s])
       IN  IF m.binary
           THEN LET h == create_wav_header(BytesLen(m.data))
                IN  IF h.ok
                    THEN CallGateway(s, k, Concat(h.bytes, m.data))
                    ELSE Raise(s, k, h.exc) /\ UNCHANGED gateway
           ELSE LET j == JsonLoads(m)
                IN  /\ IF j.ok THEN Ignore(s, k) ELSE Raise(s, k, j.exc)
                    /\ UNCHANGED gateway
    /\ UNCHANGED <<variant, conn, tmp_path, files, outbox, loop, faults>>

GatewayReturn5(s) == variant = "sample5" /\ RemoteReturn(s)

\* no `continue`: the binary message falls through to json.loads(message)
FallThrough5(s) ==
    IF JsonLoads(Message(s)).ok
    THEN BackToOpen(s)
    ELSE Raise(s, FrameNo(s), JsonLoads(Message(s)).exc)

\* `continue` after the transcript was sent
AfterTextSent5(s) == BackToOpen(s)

\* await send_json_response(websocket, {"text": resp.text}) completes.
SendText5(s) ==
    /\ variant = "sample5"
    /\ pc[s] = "SendText"
    /\ LoopFree(s)
    /\ IF conn[s] = "up"
       THEN Deliver(s) /\ AfterTextSent5(s)
       ELSE Raise(s, FrameNo(s), ConnectionClosed) /\ UNCHANGED outbox
    /\ UNCHANGED <<variant, conn, inbox, tmp_path, files, gateway, recvd,
                   loop, faults>>

SendError5(s) == variant = "sample5" /\ ErrorSend(s)

(* ------------------------------ sample6 -------------------------------- *)
\* File names are numbers.  Every frame creates at most one file.
Paths == 1..MaxFrames

\* every temporary file gets the same name
FixedPath == {1}

\* tempfile.NamedTemporaryFile picks a random name that no existing file has
\* (O_EXCL, retried on a clash).  The handler only stores the name and hands
\* it to transcribe and os.remove, so which unused name is picked makes no
\* difference to it: the least unused one stands for all of them.
FreePaths ==
    LET free == Paths \ {f.path : f \in files}
    IN  {p \in free : \A q \in free : p <= q}

\* The bytes stored under path p in the file system fs.
ReadFile(fs, p) == (CHOOSE f \in fs : f.path = p).data

\* finally: try: os.remove(tmp_path) except OSError: print(...)
Remove(s, removed) ==
    /\ files' = IF removed
                THEN {f \in files : f.path \notin tmp_path[s]}
                ELSE files
    /\ tmp_path' = [tmp_path EXCEPT ![s] = {}]
    /\ faults' = IF removed THEN faults ELSE faults + 1

\* The outcomes of os.remove: it succeeds, or it raises OSError.
RemoveOutcomes == IF MayFail THEN BOOLEAN ELSE {TRUE}

\* One iteration of the receive loop up to the call of
\* whisper_model.transcribe, which does not give the event loop back.
Receive6(s) ==
    /\ variant = "sample6"
    /\ CanAccept(s)
    /\ LoopFree(s)
    /\ Take(s)
    /\ LET k == FrameNo(s) + 1
           m == Head(inbox[s])
       IN  IF m.binary
           THEN LET h == create_wav_header(BytesLen(m.data))
                IN  IF ~h.ok
                    THEN /\ Raise(s, k, h.exc)
                         /\ UNCHANGED <<gateway, files, tmp_path, loop, faults>>
                    ELSE \/ \* NamedTemporaryFile(...) raises
                            /\ MayFail
                            /\ faults' = faults + 1
                            /\ Raise(s, k, DiskError)
                            /\ UNCHANGED <<gateway, files, tmp_path, loop>>
                         \/ \* tmpfile.write(...) raises, the file stays
                            \E p \in FreePaths :
                              /\ MayFail
                              /\ faults' = faults + 1
                              /\ files' = files \cup
                                   {[path |-> p, data |-> EmptyBytes,
                                     owner |-> s]}
                              /\ Raise(s, k, DiskError)
                              /\ UNCHANGED <<gateway, tmp_path, loop>>
                         \/ \* the file is written, transcribe starts
                            \E p \in FreePaths :
                              /\ files' = files \cup
                                   {[path |-> p,
                                     data |-> Concat(h.bytes, m.data),
                                     owner |-> s]}
                              /\ tmp_path' = [tmp_path EXCEPT ![s] = {p}]
                              /\ CallGateway(s, k, ReadFile(files', p))
                              /\ loop' = {s}
                              /\ UNCHANGED faults
           ELSE LET j == JsonLoads(m)
                IN  /\ IF j.ok THEN Ignore(s, k) ELSE Raise(s, k, j.exc)
                    /\ UNCHANGED <<gateway, files, tmp_path, loop, faults>>
    /\ UNCHANGED <<variant, conn, outbox>>

\* whisper_model.transcribe(tmp_path, ...) returns or raises; the coroutine
\* runs on to its send, where the event loop is free again.
GatewayReturn6(s) ==
    /\ variant = "sample6"
    /\ pc[s] = "Gateway"
    /\ LoopFree(s)
    /\ \/ /\ SettleCall(s, "ok")
          /\ pc' = [pc EXCEPT ![s] = "SendText"]
          /\ resp' = [resp EXCEPT
                        ![s] = <<TextResult(FrameNo(s),
                                     Transcript(LastCall(s).input))>>]
          /\ UNCHANGED <<files, tmp_path, faults>>
       \/ \E removed \in RemoveOutcomes :
            /\ SettleCall(s, "failed")
            /\ Remove(s, removed)
            /\ Raise(s, FrameNo(s), InferenceError)
    /\ loop' = {}
    /\ UNCHANGED <<variant, conn, inbox, outbox, recvd>>

\* os.remove without its own try: its OSError reaches the except handler
RemoveErrorRaised(s) ==
    IF files' = files
    THEN Raise(s, FrameNo(s), DiskError)
    ELSE BackToOpen(s)

\* `continue` after the try/finally
AfterTextSent6(s) == BackToOpen(s)

\* await send_json_response(websocket, {"text": ...}) completes, then the
\* finally block removes the temporary file.
SendText6(s) ==
    /\ variant = "sample6"
    /\ pc[s] = "SendText"
    /\ LoopFree(s)
    /\ \E removed \in RemoveOutcomes :
         /\ Remove(s, removed)
         /\ IF conn[s] = "up"
            THEN Deliver(s) /\ AfterTextSent6(s)
            ELSE Raise(s, FrameNo(s), ConnectionClosed) /\ UNCHANGED outbox
    /\ UNCHANGED <<variant, conn, inbox, gateway, recvd, loop>>

SendError6(s) == variant = "sample6" /\ ErrorSend(s)

(* ------------------------- end of the session -------------------------- *)
\* `async for` ends: the connection is closed and no frame is left.
LoopEnd(s) ==
    /\ pc[s] = "Open"
    /\ LoopFree(s)
    /\ conn[s] = "down"
    /\ inbox[s] = <<>>
    /\ pc' = [pc EXCEPT ![s] = "Closed"]
    /\ UNCHANGED <<variant, conn, inbox, resp, tmp_path, files, gateway,
                   outbox, recvd, loop, faults>>

Next ==
    \E s \in Sessions :
        \/ PeerClose(s)
        \/ Receive4(s)
        \/ GatewayReturn4(s)
        \/ SendText4(s)
        \/ SendError4(s)
        \/ Receive5(s)
        \/ GatewayReturn5(s)
        \/ SendText5(s)
        \/ SendError5(s)
        \/ Receive6(s)
        \/ GatewayReturn6(s)
        \/ SendText6(s)
        \/ SendError6(s)
        \/ LoopEnd(s)

Spec == Init /\ [][Next]_vars

\* The steps of the coroutine of session s, the return of its engine call
\* included.
Handler(s) ==
    \/ Receive4(s) \/ GatewayReturn4(s) \/ SendText4(s) \/ SendError4(s)
    \/ Receive5(s) \/ GatewayReturn5(s) \/ SendText5(s) \/ SendError5(s)
    \/ Receive6(s) \/ GatewayReturn6(s) \/ SendText6(s) \/ SendError6(s)
    \/ LoopEnd(s)

\* While some coroutine can run, or some engine call is pending, the event
\* loop resumes a coroutine or a call returns; peers close their connection
\* or do not.
FairSpec == Spec /\ WF_vars(\E s \in Sessions : Handler(s))

TypeOK ==
    /\ variant \in Variants
    /\ \A s \in Sessions :
         /\ conn[s] \in {"up", "down"}
         /\ pc[s] \in {"Open", "Gateway", "SendText", "SendError", "Closed"}
         /\ Len(resp[s]) <= 1
         /\ tmp_path[s] \subseteq Paths
    /\ loop \subseteq Sessions

(* ======================= properties of the relays ====================== *)
\* Frames of session s whose processing is over.
Done(s) ==
    IF pc[s] \in {"Open", "Closed"} THEN Len(recvd[s]) ELSE Len(recvd[s]) - 1

\* The responses delivered to the peer of s for its frame k.
ResponsesTo(s, k) == {i \in 1..Len(outbox[s]) : outbox[s][i].no = k}

\* The engine calls made for frame k of session s.
CallsFor(s, k) == {i \in 1..Len(gateway[s]) : gateway[s][i].no = k}

\* A frame the variant handles without any response: JSON that json.loads
\* accepts and, in sample4, an object of another type than "audio_chunk".
IsNoOp(f) ==
    IF variant = "sample4"
    THEN JsonLoads(f).ok /\ JsonLoads(f).isdict
           /\ ~IsAudioChunk(JsonLoads(f).obj)
    ELSE ~f.binary /\ JsonLoads(f).ok

\* Responses come in frame order, at most one per frame.
InFrameOrder(s) ==
    \A i, j \in 1..Len(outbox[s]) : i < j => outbox[s][i].no < outbox[s][j].no

(* ---- C1 as stated ---- *)
\* C1 (as stated): a session whose connection is up and that is back in Open
\* after N frames has emitted exactly N responses, one per frame, in order.
C1_OneResponsePerFrame ==
    \A s \in Sessions :
        (conn[s] = "up" /\ pc[s] = "Open") =>
            /\ Len(outbox[s]) = Len(recvd[s])
            /\ \A i \in 1..Len(outbox[s]) : outbox[s][i].no = i

\* C1 (amended): responses are TranscriptResults or ErrorResults in frame
\* order, at most one per frame and none for a frame not yet processed to its
\* end; a no-op frame gets no response; while the connection is up every
\* other frame whose processing is over has got its response, so the
\* response to frame N is out before frame N+1 is accepted.
C1_ResponsePerNonNoOpFrame ==
    \A s \in Sessions :
        /\ InFrameOrder(s)
        /\ \A i \in 1..Len(outbox[s]) :
             /\ outbox[s][i].kind \in {"text", "error"}
             /\ outbox[s][i].no \in 1..Done(s)
             /\ ~IsNoOp(recvd[s][outbox[s][i].no])
        /\ conn[s] = "up" =>
             \A k \in 1..Done(s) :
                ~IsNoOp(recvd[s][k]) => Cardinality(ResponsesTo(s, k)) = 1

\* Two frames were processed on a live connection: a no-op and then one that
\* got its response.
C1_Witness ==
    \E s \in Sessions :
        /\ conn[s] = "up" /\ pc[s] = "Open" /\ Len(recvd[s]) = 2
        /\ IsNoOp(recvd[s][1])
        /\ Len(outbox[s]) = 1 /\ outbox[s][1].no = 2

(* ---- C2 ---- *)
\* C2: in the local-model session no temporary file created by a session
\* exists any more once the session is back in Open or has reached Closed.
C2_TempFileDeleted ==
    \A s \in Sessions :
        pc[s] \in {"Open", "Closed"} => ~\E f \in files : f.owner = s

(* ---- C3 ---- *)
\* C3: while a session waits for its Gateway call, every other session that
\* waits in Open with a frame in its queue can take and process that frame.
C3_OthersNotBlocked ==
    \A s, t \in Sessions :
        (s # t /\ pc[s] = "Gateway" /\ CanAccept(t)) =>
            ENABLED (Receive4(t) \/ Receive5(t) \/ Receive6(t))

(* ---- C4 ---- *)
\* C4: a frame gets at most one terminal result: no two responses answer the
\* same frame, and a response is never being sent for a frame that already
\* has one.
C4_AtMostOneResult ==
    \A s \in Sessions :
        /\ \A k \in 1..Len(recvd[s]) : Cardinality(ResponsesTo(s, k)) <= 1
        /\ resp[s] # <<>> => ResponsesTo(s, resp[s][1].no) = {}

\* The transcript was obtained, its send failed, and the except handler is
\* about to send an ErrorResult for the same frame.
C4_Witness ==
    \E s \in Sessions :
        /\ pc[s] = "SendError"
        /\ gateway[s] # <<>>
        /\ LastCall(s).no = FrameNo(s)
        /\ LastCall(s).status = "ok"

(* ---- C5 ---- *)
\* C5: a session is Closed only when its connection is down; whatever the
\* frames were, a session with a live connection is never Closed.
C5_ClosedOnlyAfterDisconnect ==
    \A s \in Sessions : pc[s] = "Closed" => conn[s] = "down"

\* A frame failed, its ErrorResult was sent, and the session is Open again.
C5_Witness ==
    \E s \in Sessions :
        /\ conn[s] = "up" /\ pc[s] = "Open" /\ outbox[s] # <<>>
        /\ outbox[s][Len(outbox[s])].kind = "error"
        /\ outbox[s][Len(outbox[s])].no = Len(recvd[s])

\* little-endian uint32 read back from the four bytes of h at offset off
ReadU32(h, off) ==
    Big(h[off + 3] + 256 * h[off + 4], h[off + 1] + 256 * h[off + 2])

\* What frame f asks the engine to transcribe, if anything: in sample4 the
\* base64 payload of an audio_chunk message, decoded; in sample5 and sample6
\* a binary frame behind its 44-byte header.
AudioOf(f) ==
    IF variant = "sample4"
    THEN LET j == JsonLoads(f)
         IN  IF j.ok /\ j.isdict /\ "type" \in DOMAIN j.obj
                  /\ j.obj.type = "audio_chunk" /\ "data" \in DOMAIN j.obj
                  /\ j.obj.data # <<>> /\ b64decode(j.obj.data).ok
             THEN [call |-> TRUE,
                   input |-> [body |-> b64decode(j.obj.data).bytes,
                              pad |-> Big(0, 0)]]
             ELSE [call |-> FALSE, input |-> EmptyBytes]
    ELSE IF f.binary /\ create_wav_header(BytesLen(f.data)).ok
         THEN [call |-> TRUE,
               input |-> [body |-> create_wav_header(BytesLen(f.data)).bytes
                                     \o f.data.body,
                          pad |-> f.data.pad]]
         ELSE [call |-> FALSE, input |-> EmptyBytes]

\* Frame n of session s was processed as the frame alone determines: the
\* engine call it asks for and no other, a TranscriptResult exactly when that
\* call succeeded, some response unless the frame is a no-op.
ProcessedOnItsOwn(s, n) ==
    LET f == recvd[s][n]
        a == AudioOf(f)
    IN  /\ Cardinality(CallsFor(s, n)) <= 1
        /\ \A i \in CallsFor(s, n) : a.call /\ gateway[s][i].input = a.input
        /\ (a.call /\ (variant # "sample6" \/ faults = 0)) =>
              CallsFor(s, n) # {}
        /\ \A r \in ResponsesTo(s, n) :
              /\ outbox[s][r].kind = "text" <=>
                    \E i \in CallsFor(s, n) : gateway[s][i].status = "ok"
              /\ outbox[s][r].kind = "text" =>
                    outbox[s][r].text = Transcript(a.input)
        /\ (n <= Done(s) /\ conn[s] = "up" /\ ~IsNoOp(f)) =>
              ResponsesTo(s, n) # {}

(* ---- C6 ---- *)
\* C6: when the engine call of frame k failed, frame k is answered by an
\* ErrorResult and by nothing else, the session stays open, and frame k+1 is
\* processed as frame k+1 alone determines.
C6_FailureDoesNotCarryOver ==
    \A s \in Sessions :
        \A k \in 1..Len(recvd[s]) :
            (\E i \in CallsFor(s, k) : gateway[s][i].status = "failed") =>
                /\ \A r \in ResponsesTo(s, k) : outbox[s][r].kind = "error"
                /\ (k <= Done(s) /\ conn[s] = "up") =>
                      ResponsesTo(s, k) # {} /\ pc[s] # "Closed"
                /\ k + 1 <= Len(recvd[s]) => ProcessedOnItsOwn(s, k + 1)

\* The engine call of one frame failed, the call of the next frame succeeded
\* and its transcript was delivered.
C6_Witness ==
    \E s \in Sessions :
        /\ Len(gateway[s]) = 2 /\ Len(outbox[s]) = 2
        /\ gateway[s][1].status = "failed" /\ gateway[s][2].status = "ok"
        /\ gateway[s][2].no = gateway[s][1].no + 1
        /\ outbox[s][1].kind = "error" /\ outbox[s][2].kind = "text"

(* ---- C7 ---- *)
\* C7 (as stated): for every binary frame, of whatever length L, the encoder
\* returns a 44-byte header with 36 + L at offset 4 and L at offset 40.
C7_HeaderForEveryLength ==
    \A s \in Sessions :
        \A k \in 1..Len(recvd[s]) :
            (variant # "sample4" /\ recvd[s][k].binary) =>
                LET L == BytesLen(recvd[s][k].data)
                    h == create_wav_header(L)
                IN  /\ h.ok
                    /\ Len(h.bytes) = 44
                    /\ ReadU32(h.bytes, 4) = BigAdd(L, 36)
                    /\ ReadU32(h.bytes, 40) = L

\* C7 (amended): for every binary frame of length L <= 2^32 - 37 the encoder
\* returns a 44-byte header with 36 + L at offset 4 and L at offset 40, and
\* the engine input starts with it and is 44 + L bytes long; for a longer
\* frame the encoder raises and there is no engine call.
C7_HeaderUpTo32Bits ==
    \A s \in Sessions :
        \A k \in 1..Len(recvd[s]) :
            (variant # "sample4" /\ recvd[s][k].binary) =>
                LET L == BytesLen(recvd[s][k].data)
                    h == create_wav_header(L)
                IN  IF BigAdd(L, 36).hi < Base
                    THEN /\ h.ok
                         /\ Len(h.bytes) = 44
                         /\ ReadU32(h.bytes, 4) = BigAdd(L, 36)
                         /\ ReadU32(h.bytes, 40) = L
                         /\ \A i \in CallsFor(s, k) :
                              /\ SubSeq(gateway[s][i].input.body, 1, 44)
                                   = h.bytes
                              /\ BytesLen(gateway[s][i].input) = BigAdd(L, 44)
                    ELSE ~h.ok /\ CallsFor(s, k) = {}

\* The engine was called for a frame of the longest length that fits, and a
\* frame one byte longer was turned down.
C7_Witness ==
    \E s \in Sessions :
        /\ Len(recvd[s]) = 2 /\ pc[s] = "SendError"
        /\ recvd[s][1] = BinFrame(Bytes(<<>>, LongestLen))
        /\ recvd[s][2] = BinFrame(Bytes(<<>>, BigAdd(LongestLen, 1)))
        /\ CallsFor(s, 1) # {} /\ CallsFor(s, 2) = {}

(* ---- C8 ---- *)
\* C8: a connection has at most one engine call pending, that of the frame
\* it is processing; calls are made in frame order; while a frame is being
\* processed everything sent so far answers earlier frames, and on a live
\* connection every earlier frame that is no no-op has been answered.
C8_NoPipelining ==
    \A s \in Sessions :
        /\ \A i \in 1..Len(gateway[s]) :
              gateway[s][i].status = "pending" =>
                 /\ i = Len(gateway[s])
                 /\ pc[s] = "Gateway"
                 /\ gateway[s][i].no = FrameNo(s)
        /\ \A i, j \in 1..Len(gateway[s]) :
              i < j => gateway[s][i].no < gateway[s][j].no
        /\ pc[s] \in {"Gateway", "SendText", "SendError"} =>
              /\ \A r \in 1..Len(outbox[s]) : outbox[s][r].no < FrameNo(s)
              /\ conn[s] = "up" =>
                    \A k \in 1..(FrameNo(s) - 1) :
                       ~IsNoOp(recvd[s][k]) => ResponsesTo(s, k) # {}

\* The second engine call of a connection is pending; the first is settled
\* and answered.
C8_Witness ==
    \E s \in Sessions :
        /\ Len(gateway[s]) = 2
        /\ gateway[s][1].status # "pending"
        /\ gateway[s][2].status = "pending"
        /\ ResponsesTo(s, gateway[s][1].no) # {}

(* ---- C9 ---- *)
\* C9 (as stated): in every variant, a binary frame whose processing is over
\* has led to exactly one engine call, with the header for its length
\* followed by its bytes.
C9_BinaryAlwaysAudio ==
    \A s \in Sessions :
        \A k \in 1..Done(s) :
            recvd[s][k].binary =>
                LET d == recvd[s][k].data
                    h == create_wav_header(BytesLen(d))
                IN  /\ Cardinality(CallsFor(s, k)) = 1
                    /\ h.ok
                    /\ \A i \in CallsFor(s, k) :
                          gateway[s][i].input
                             = [body |-> h.bytes \o d.body, pad |-> d.pad]

\* An OSError was raised for frame k of session s: its ErrorResult is being
\* sent or was delivered, or its send failed and ended the session.
DiskFailureOn(s, k) ==
    \/ \E r \in ResponsesTo(s, k) :
          outbox[s][r].kind = "error" /\ outbox[s][r].type = "OSError"
    \/ /\ pc[s] = "SendError" /\ k = FrameNo(s)
       /\ resp[s][1].type = "OSError"
    \/ pc[s] = "Closed" /\ k = FrameNo(s)

\* C9 (amended): in sample5 and sample6 a binary frame of at most 2^32 - 37
\* bytes, whatever its bytes and also when it has none, leads to at most one
\* engine call, whose input is the header for its length followed by its
\* bytes unchanged, and to exactly one unless, in sample6, creating or
\* writing the temporary file failed.
C9_BinaryIsAudioInBinaryVariants ==
    \A s \in Sessions :
        \A k \in 1..Len(recvd[s]) :
            LET d == recvd[s][k].data
                h == create_wav_header(BytesLen(d))
            IN  (variant # "sample4" /\ recvd[s][k].binary /\ h.ok) =>
                    /\ Cardinality(CallsFor(s, k)) <= 1
                    /\ \A i \in CallsFor(s, k) :
                          gateway[s][i].input
                             = [body |-> h.bytes \o d.body, pad |-> d.pad]
                    /\ CallsFor(s, k) = {} =>
                          variant = "sample6" /\ DiskFailureOn(s, k)

\* A zero-length binary frame and one with bytes in it have both led to an
\* engine call.
C9_Witness ==
    \E s \in Sessions :
        /\ variant # "sample4" /\ Len(recvd[s]) = 2 /\ Len(gateway[s]) = 2
        /\ recvd[s][1] = BinFrame(EmptyBytes)
        /\ recvd[s][2] = BinFrame(Bytes(<<123, 125>>, ToBig(0)))

(* ---- C10 ---- *)
\* A text that is no JSON object of type "audio_chunk" with a "data" field.
LacksAudioChunk(t) ==
    LET j == JsonParse(t)
    IN  \/ ~j.ok
        \/ ~j.isdict
        \/ "type" \notin DOMAIN j.obj
        \/ j.obj.type # "audio_chunk"
        \/ "data" \notin DOMAIN j.obj

\* C10: a text frame whose type is not "audio_chunk", or that has no payload
\* field, never leads to an engine call.
C10_NoCallWithoutAudioChunk ==
    \A s \in Sessions :
        \A k \in 1..Len(recvd[s]) :
            (~recvd[s][k].binary /\ LacksAudioChunk(recvd[s][k].text)) =>
                CallsFor(s, k) = {}

\* sample4 has processed a message of another type that carries a payload,
\* and one of type "audio_chunk" that carries none, without an engine call.
C10_Witness ==
    \E s \in Sessions :
        /\ variant = "sample4" /\ Done(s) = 2 /\ gateway[s] = <<>>
        /\ recvd[s][1]
             = TextFrame("{\"type\":\"ping\",\"data\":\"AAAAAA==\"}")
        /\ recvd[s][2] = TextFrame("{\"type\":\"audio_chunk\"}")
        /\ Len(outbox[s]) = 1

(* ---- C11 ---- *)
\* The text frame {"type":"audio_chunk","data":""}.
EmptyPayloadFrame == TextFrame("{\"type\":\"audio_chunk\",\"data\":\"\"}")

\* Frame k of session s got, on a live connection, the ErrorResult "Empty
\* audio data received" and no engine call, and the session is not Closed.
EmptyPayloadReported(s, k) ==
    /\ CallsFor(s, k) = {}
    /\ \A r \in ResponsesTo(s, k) :
          /\ outbox[s][r].kind = "error"
          /\ outbox[s][r].error = "Empty audio data received"
    /\ (k <= Done(s) /\ conn[s] = "up") =>
          Cardinality(ResponsesTo(s, k)) = 1 /\ pc[s] # "Closed"

\* C11 (as stated): in every variant the text frame with the empty payload
\* is answered by the ErrorResult for empty audio data, without an engine
\* call, and the session stays Open.
C11_EmptyPayloadIsError ==
    \A s \in Sessions :
        \A k \in 1..Len(recvd[s]) :
            recvd[s][k] = EmptyPayloadFrame => EmptyPayloadReported(s, k)

\* C11 (amended): in sample4 the text frame with the empty payload is
\* answered, while the connection is up, by exactly one ErrorResult whose
\* message is "Empty audio data received", without an engine call, and the
\* session stays Open; in sample5 and sample6 the frame is a no-op: no
\* response and no engine call.
C11_EmptyPayloadIsErrorInTextVariant ==
    \A s \in Sessions :
        \A k \in 1..Len(recvd[s]) :
            recvd[s][k] = EmptyPayloadFrame =>
                IF variant = "sample4"
                THEN EmptyPayloadReported(s, k)
                ELSE CallsFor(s, k) = {} /\ ResponsesTo(s, k) = {}

\* sample4 has answered the empty payload and is Open again, and the frame
\* after it has led to an engine call.
C11_Witness ==
    \E s \in Sessions :
        /\ variant = "sample4" /\ conn[s] = "up" /\ Len(recvd[s]) = 2
        /\ recvd[s][1] = EmptyPayloadFrame
        /\ Len(outbox[s]) >= 1
        /\ outbox[s][1].error = "Empty audio data received"
        /\ CallsFor(s, 1) = {} /\ CallsFor(s, 2) # {}

(* ---- C12 ---- *)
\* Temporary files have distinct names, the file a session works on is its
\* own and holds the container of its own current frame, and every engine
\* input and transcript comes from the session's own frame.
TempFilesApart ==
    /\ \A f, g \in files : f.path = g.path => f = g
    /\ \A s, t \in Sessions : s # t => tmp_path[s] \cap tmp_path[t] = {}
    /\ \A s \in Sessions :
          /\ \A p \in tmp_path[s] :
                \E f \in files :
                    /\ f.path = p /\ f.owner = s
                    /\ f.data = AudioOf(recvd[s][FrameNo(s)]).input
          /\ \A i \in 1..Len(gateway[s]) :
                gateway[s][i].input
                   = AudioOf(recvd[s][gateway[s][i].no]).input
          /\ \A r \in 1..Len(outbox[s]) :
                outbox[s][r].kind = "text" =>
                   outbox[s][r].text
                      = Transcript(AudioOf(recvd[s][outbox[s][r].no]).input)

\* A step that removes a file is a step of the session that created it,
\* removing the file it works on; no step changes an existing file.
DeletesOwnFile ==
    /\ \A f \in files :
          f \notin files' =>
             /\ tmp_path[f.owner] = {f.path}
             /\ tmp_path'[f.owner] = {}
             /\ pc'[f.owner] # pc[f.owner]
             /\ \A t \in Sessions \ {f.owner} :
                   pc'[t] = pc[t] /\ tmp_path'[t] = tmp_path[t]
    /\ \A f \in files : \A g \in files' : g.path = f.path => g = f

\* C12: in sample6, sessions that have a temporary file at the same time
\* have different files; a session reads and deletes only the file it
\* created, no file is overwritten, and each response comes from the
\* session's own frame.
C12_OwnTempFileOnly ==
    [](variant = "sample6" => TempFilesApart) /\ [][DeletesOwnFile]_vars

\* Two sessions have a temporary file at the same time: one is sending its
\* transcript, the other is in its engine call.
C12_Witness ==
    \E s, t \in Sessions :
        /\ pc[s] = "SendText" /\ pc[t] = "Gateway"
        /\ tmp_path[s] # {} /\ tmp_path[t] # {}

(* ---- C13 ---- *)
\* The exception frame f raises before any engine call, if it raises one.
LocalError(f) ==
    IF variant = "sample4"
    THEN LET j == JsonLoads(f)
         IN  IF ~j.ok THEN {j.exc}
             ELSE IF ~j.isdict THEN {AttributeError}
             ELSE IF "type" \notin DOMAIN j.obj \/ j.obj.type # "audio_chunk"
             THEN {}
             ELSE IF "data" \notin DOMAIN j.obj THEN {KeyError}
             ELSE IF j.obj.data = <<>> THEN {EmptyAudio}
             ELSE IF ~b64decode(j.obj.data).ok
             THEN {b64decode(j.obj.data).exc}
             ELSE {}
    ELSE IF f.binary
         THEN IF create_wav_header(BytesLen(f.data)).ok
              THEN {}
              ELSE {create_wav_header(BytesLen(f.data)).exc}
         ELSE IF JsonLoads(f).ok THEN {} ELSE {JsonLoads(f).exc}

\* The messages of the errors the processing of frame f can be reported
\* with: its own local error, or a failure of its engine call or, in
\* sample6, of its temporary file.
ErrorsOf(f) ==
    IF LocalError(f) # {} THEN {e.msg : e \in LocalError(f)}
    ELSE IF ~AudioOf(f).call THEN {}
    ELSE IF variant = "sample6" THEN {InferenceError.msg, DiskError.msg}
    ELSE {ApiError.msg}

\* Response r answers frame r.no of session s as that frame determines.
AnswersOwnFrame(s, r) ==
    /\ r.no \in 1..Len(recvd[s])
    /\ r.kind = "text" =>
          r.text = Transcript(AudioOf(recvd[s][r.no]).input)
    /\ r.kind = "error" => r.error \in ErrorsOf(recvd[s][r.no])

\* Everything sent or being sent on a connection answers a frame of that
\* connection.
NoForeignResponse ==
    \A s \in Sessions :
        /\ \A i \in 1..Len(outbox[s]) : AnswersOwnFrame(s, outbox[s][i])
        /\ \A i \in 1..Len(resp[s]) :
              \/ AnswersOwnFrame(s, resp[s][i])
              \/ /\ resp[s][i].kind = "error"
                 /\ resp[s][i].error = ConnectionClosed.msg

\* The part of the state that belongs to session s.
SessionState(s) ==
    <<inbox[s], pc[s], resp[s], tmp_path[s], gateway[s], outbox[s], recvd[s]>>

\* A step in which a connection gets a response sends what the coroutine of
\* that connection was sending, and a step of one session, an error raised
\* in it included, leaves every other session as it was.
SessionLocalStep ==
    \A s \in Sessions :
        /\ outbox'[s] # outbox[s] =>
              resp[s] # <<>> /\ outbox'[s] = Append(outbox[s], resp[s][1])
        /\ SessionState(s)' # SessionState(s) =>
              \A t \in Sessions \ {s} :
                  SessionState(t)' = SessionState(t) /\ conn'[t] = conn[t]

\* C13: a response, TranscriptResult or ErrorResult, goes out only on the
\* connection whose frame it answers; an error raised for a frame of one
\* session reaches no other session and changes no other session's state.
C13_ResponsesOnOwnConnection ==
    []NoForeignResponse /\ [][SessionLocalStep]_vars

\* One session got an ErrorResult for its frame while the other, with a
\* different frame, got its transcript.
C13_Witness ==
    \E s, t \in Sessions :
        /\ Len(outbox[s]) = 1 /\ outbox[s][1].kind = "error"
        /\ Len(outbox[t]) = 1 /\ outbox[t][1].kind = "text"

(* ---- C14 ---- *)
\* In this step os.remove failed in session s: the coroutine is through with
\* its temporary file and the file is still on disk.
RemoveFailed(s) == tmp_path[s] # {} /\ tmp_path'[s] = {} /\ files' = files

\* A step in which os.remove failed does what the step does when os.remove
\* succeeds: after a sent transcript the session is Open, after a failed
\* send the ConnectionClosed is reported, after a failed inference the
\* inference error is.
RemoveFailureOnlyLogged ==
    \A s \in Sessions :
        RemoveFailed(s) =>
            IF pc[s] = "SendText"
            THEN IF conn[s] = "up"
                 THEN /\ outbox'[s]
                           = Append(outbox[s],
                                    TextResult(FrameNo(s),
                                        Transcript(LastCall(s).input)))
                      /\ pc'[s] = "Open" /\ resp'[s] = <<>>
                 ELSE /\ outbox'[s] = outbox[s]
                      /\ pc'[s] = "SendError"
                      /\ resp'[s]
                           = <<ErrorResult(FrameNo(s), ConnectionClosed)>>
            ELSE /\ pc[s] = "Gateway" /\ pc'[s] = "SendError"
                 /\ outbox'[s] = outbox[s]
                 /\ resp'[s] = <<ErrorResult(FrameNo(s), InferenceError)>>

\* A frame with an engine call is answered once, by its transcript if the
\* inference succeeded and by the inference error otherwise, never by an
\* OSError, and the session is not Closed while the connection is up.
NoRemoveErrorSurfaced ==
    \A s \in Sessions :
        \A k \in 1..Len(recvd[s]) :
            CallsFor(s, k) # {} =>
                /\ Cardinality(ResponsesTo(s, k)) <= 1
                /\ \A r \in ResponsesTo(s, k) :
                      IF \E i \in CallsFor(s, k) : gateway[s][i].status = "ok"
                      THEN outbox[s][r].kind = "text"
                      ELSE /\ outbox[s][r].kind = "error"
                           /\ outbox[s][r].error = InferenceError.msg
                /\ (k <= Done(s) /\ conn[s] = "up") =>
                      ResponsesTo(s, k) # {} /\ pc[s] # "Closed"

\* C14: in sample6 a failing os.remove changes nothing for the client: the
\* response is the one of a succeeding os.remove, no ErrorResult is emitted
\* for the failed deletion, and the session stays Open.
C14_RemoveFailureNotSurfaced ==
    [](variant = "sample6" => NoRemoveErrorSurfaced)
        /\ [][RemoveFailureOnlyLogged]_vars

\* The transcript was delivered, os.remove failed, and the session is Open
\* with the file of its frame left on disk.
C14_Witness ==
    \E s \in Sessions :
        /\ conn[s] = "up" /\ pc[s] = "Open" /\ tmp_path[s] = {}
        /\ Len(outbox[s]) = 1 /\ outbox[s][1].kind = "text"
        /\ \E f \in files : f.owner = s /\ f.data # EmptyBytes

(* ---- C15 ---- *)
\* C15: while a session is suspended in the send of a response, the
\* temporary file of the frame it answers does not exist any more.
C15_TempFileGoneAtSend ==
    \A s \in Sessions :
        pc[s] \in {"SendText", "SendError"} =>
            ~\E f \in files : f.owner = s /\ f.path \in tmp_path[s]

(* ---- C16 ---- *)
\* The payload of text frame f, when f is an audio_chunk message with a
\* payload that is not empty; <<>> otherwise.
PayloadOf(f) ==
    LET j == JsonLoads(f)
    IN  IF ~f.binary /\ j.ok /\ j.isdict /\ "type" \in DOMAIN j.obj
             /\ j.obj.type = "audio_chunk" /\ "data" \in DOMAIN j.obj
        THEN j.obj.data
        ELSE <<>>

IsUnknownControl(f) ==
    /\ ~f.binary
    /\ JsonParse(f.text).ok
    /\ JsonParse(f.text).isdict
    /\ \/ "type" \notin DOMAIN JsonParse(f.text).obj
       \/ JsonParse(f.text).obj.type # "audio_chunk"

\* C17: in every variant a well-formed control record of an unrecognized
\* type gets no response and no engine call, and once it is taken the
\* session is Open again (or Closed, when its connection is gone).
C17_UnknownControlIsNoOp ==
    \A s \in Sessions :
        \A k \in 1..Len(recvd[s]) :
            IsUnknownControl(recvd[s][k]) =>
                /\ ResponsesTo(s, k) = {}
                /\ CallsFor(s, k) = {}
                /\ k = FrameNo(s) =>
                      /\ resp[s] = <<>>
                      /\ pc[s] \in {"Open", "Closed"}
                      /\ pc[s] = "Closed" => conn[s] = "down"

\* A connection took a record of type "ping", did nothing, and has
\* answered the frame that came after it.
C17_Witness ==
    \E s \in Sessions :
        /\ conn[s] = "up" /\ pc[s] = "Open" /\ Len(recvd[s]) = 2
        /\ IsUnknownControl(recvd[s][1])
        /\ ResponsesTo(s, 1) = {} /\ ResponsesTo(s, 2) # {}

(* ---- C18 ---- *)
\* C18: when every engine call returns, a session whose connection the peer
\* has closed or reset, in whatever state it was then, eventually is Closed
\* and stays Closed, and nothing is emitted on a connection that is down.
\* A connection that is down stays down and Closed stays Closed, so "down
\* leads to Closed" is: from some point on, every session whose connection
\* is down is Closed.
C18_ClosedAfterDisconnect ==
    /\ <>[](\A s \in Sessions : conn[s] = "down" => pc[s] = "Closed")
    /\ [][\A s \in Sessions :
            /\ conn[s] = "down" => conn'[s] = "down" /\ outbox'[s] = outbox[s]
            /\ pc[s] = "Closed" => pc'[s] = "Closed"]_vars

\* The connection was lost while the engine call was pending: the call
\* returned a transcript, its send and the send of the error both failed,
\* and the session is Closed with the frame unanswered.
C18_Witness ==
    \E s \in Sessions :
        /\ pc[s] = "Closed" /\ conn[s] = "down"
        /\ gateway[s] # <<>>
        /\ LastCall(s).status = "ok"
        /\ ResponsesTo(s, LastCall(s).no) = {}

(* ---- C19 ---- *)
\* A binary frame of a binary-framed variant whose length L makes 36 + L
\* exceed 2^32 - 1.
TooLong(f) ==
    variant # "sample4" /\ f.binary /\ BigAdd(BytesLen(f.data), 36).hi >= Base

\* The step that takes a frame that is too long makes no engine call and no
\* temporary file, and goes to the send of the ErrorResult of struct.error.
TooLongTurnedDown ==
    \A s \in Sessions :
        (Len(recvd'[s]) = Len(recvd[s]) + 1
           /\ TooLong(recvd'[s][Len(recvd'[s])])) =>
            /\ gateway' = gateway
            /\ files' = files /\ tmp_path' = tmp_path
            /\ pc'[s] = "SendError"
            /\ Len(resp'[s]) = 1
            /\ resp'[s][1].no = Len(recvd'[s])
            /\ resp'[s][1].kind = "error"
            /\ resp'[s][1].error
                 = "'I' format requires 0 <= number <= 4294967295"

\* A frame that is too long has no header and no engine call, is answered
\* by the ErrorResult of struct.error only, once when the connection is up,
\* and does not close the session.
TooLongReported ==
    \A s \in Sessions :
        \A k \in 1..Len(recvd[s]) :
            TooLong(recvd[s][k]) =>
                /\ ~create_wav_header(BytesLen(recvd[s][k].data)).ok
                /\ CallsFor(s, k) = {}
                /\ \A r \in ResponsesTo(s, k) :
                      /\ outbox[s][r].kind = "error"
                      /\ outbox[s][r].error
                           = "'I' format requires 0 <= number <= 4294967295"
                /\ (k <= Done(s) /\ conn[s] = "up") =>
                      /\ Cardinality(ResponsesTo(s, k)) = 1
                      /\ pc[s] # "Closed"

\* C19: for a binary frame whose length L makes 36 + L exceed 2^32 - 1,
\* create_wav_header raises instead of writing a wrapped size; the session
\* emits an ErrorResult, makes no engine call, creates no temporary file
\* and stays Open.
C19_NoWrapAround == []TooLongReported /\ [][TooLongTurnedDown]_vars

\* sample6 has answered a frame of 2^32 - 36 bytes with the ErrorResult and
\* is Open, with no file on disk and no engine call made.
C19_Witness ==
    \E s \in Sessions :
        /\ variant = "sample6" /\ conn[s] = "up" /\ pc[s] = "Open"
        /\ Len(recvd[s]) = 1 /\ TooLong(recvd[s][1])
        /\ Len(outbox[s]) = 1 /\ outbox[s][1].kind = "error"
        /\ outbox[s][1].type = "error"
        /\ files = {} /\ gateway[s] = <<>>

====
